---------------------------- MODULE Spec2Model ----------------------------
(***************************************************************************)
(* Model of the snipe strategy of examples/snipe.rs: SnipeStrategy and its  *)
(* event handlers process_update, process_book_update, process_trade,      *)
(* check_opportunities, execute_snipe_order and check_stale_quotes.        *)
(*                                                                         *)
(* Decimal prices are counted in ticks of 0.01 (0.50 is 50), order sizes   *)
(* in whole units, synthesized order amounts in hundredths of a unit (the  *)
(* random factor has two decimals), times in seconds, latencies in         *)
(* milliseconds.  avg_fill_time_ms is an f64: it is modelled as an exact   *)
(* fraction or one of the IEEE specials NaN and +Inf.                      *)
(***************************************************************************)
EXTENDS Integers, Sequences, FiniteSets

\* ------------------------------------------------------------------ bounds

\* the highest price the feed quotes, in ticks above the base price
MaxPriceStep == 2
\* number of opportunities the strategy may detect before the feed stops
MaxOrders == 2
\* the stale_threshold the strategy is constructed with, in seconds
MaxStaleThreshold == 0
\* largest measured latency of one simulated execution, in milliseconds
MaxLatency == 1
\* the size of a trade
MaxVolume == 1
\* largest order size a strategy is configured with (order-size specification)
MaxCfgSize == 4

\* ------------------------------------------------------- program constants

\* main: base price dec!(0.5) of the feed, in ticks
BasePrice == 50
\* main: max_spread_pct dec!(2.0)
MainMaxSpreadPct == 2
\* main: min_order_size dec!(10)
MainMinOrderSize == 10
\* main: max_order_size dec!(100)
MainMaxOrderSize == 100
\* main: stale_threshold 5, in seconds
MainStaleThreshold == 5
\* execute_snipe_order: rand::random::<u64>() % 100
RandomModulus == 100
\* MockMarketData::generate_update: the smallest size of a generated level
MockMinSize == 100
\* execute_snipe_order: slippage_tolerance Some(dec!(1.0)), in tenths
SlippageTolerance == 10

OwnToken == "12345"
OtherToken == "99999"
Tokens == {OwnToken, OtherToken}

\* Option<Decimal>: None, or Some(p)
None == <<>>
Some(p) == <<p>>
\* the prices the feed quotes: the base price, one tick above it, and the highest
Prices == {BasePrice, BasePrice + 1, BasePrice + MaxPriceStep}
\* the prices a book can hold a level at: the quoted ones and the price zero
BookPrices == {0} \cup Prices
\* a delta carries a size, or 0 to remove the level
LevelSizes == {0, MockMinSize}
Sides == {"BUY", "SELL"}
FillStatuses == {"Filled", "PartiallyFilled", "Rejected"}

\* the draws of rand::random::<u64>() % 100 exercised by the event machine
RandomDraws == {0, RandomModulus - 1}

VARIABLES
    cfg,              \* token_id, max_spread_pct, min_order_size, max_order_size, stale_threshold
    overflow_checks,  \* build profile: TRUE when integer overflow panics (debug)
    last_best_bid,    \* Option<Decimal>
    last_best_ask,    \* Option<Decimal>
    last_update,      \* u64 seconds
    book_manager,     \* the Book View: the owned instrument's book
    stats,            \* SnipeStats
    alive,            \* FALSE once a handler has panicked
    obs,              \* what the last processed event did
    filled_sum,       \* history: sum of the latencies of the Filled executions
    traded_sum        \* history: sum of the sizes of the trades of the owned instrument

vars == <<cfg, overflow_checks, last_best_bid, last_best_ask, last_update,
          book_manager, stats, alive, obs, filled_sum, traded_sum>>

\* ---------------------------------------------------------------- f64 values

RECURSIVE GCD(_, _)
GCD(a, b) == IF b = 0 THEN a ELSE GCD(b, a % b)

\* a non-negative finite value n/d in lowest terms
Frac(n, d) == LET g == GCD(n, d) IN [k |-> "num", n |-> n \div g, d |-> d \div g]
NaN == [k |-> "nan", n |-> 0, d |-> 1]
Inf == [k |-> "inf", n |-> 0, d |-> 1]
Zero == Frac(0, 1)

\* x * c for a count c >= 0 converted to f64 (inf * 0 is NaN)
F64MulCount(x, c) ==
    IF x.k = "nan" THEN NaN
    ELSE IF x.k = "inf" THEN (IF c = 0 THEN NaN ELSE Inf)
    ELSE Frac(x.n * c, x.d)

\* x + ms for a latency ms >= 0
F64AddLatency(x, ms) ==
    IF x.k = "num" THEN Frac(x.n + ms * x.d, x.d) ELSE x

\* x / c for a count c >= 0 converted to f64 (0/0 is NaN, positive/0 is +Inf)
F64DivCount(x, c) ==
    IF x.k = "nan" THEN NaN
    ELSE IF x.k = "inf" THEN Inf
    ELSE IF c = 0 THEN (IF x.n = 0 THEN NaN ELSE Inf)
    ELSE Frac(x.n, x.d * c)


\* ------------------------------------------------------------ the Book View

\* a freshly created book: no level on either side
EmptyBook ==
    [exists |-> TRUE, bids |-> [p \in BookPrices |-> 0], asks |-> [p \in BookPrices |-> 0]]

\* OrderBookManager::new: no book yet
NoBook ==
    [exists |-> FALSE, bids |-> [p \in BookPrices |-> 0], asks |-> [p \in BookPrices |-> 0]]

\* get_or_create_book: creates the book if absent, leaves an existing one alone
GetOrCreateBook(bm) == IF bm.exists THEN bm ELSE EmptyBook

\* apply_delta: the level at the delta's price takes the delta's size; size 0 removes it
ApplyDelta(bm, delta) ==
    IF delta.side = "BUY"
    THEN [bm EXCEPT !.bids[delta.price] = delta.size]
    ELSE [bm EXCEPT !.asks[delta.price] = delta.size]

MaxOf(S) == CHOOSE x \in S : \A y \in S : y <= x
MinOf(S) == CHOOSE x \in S : \A y \in S : x <= y

RECURSIVE LevelsDescending(_, _)
LevelsDescending(f, S) ==
    IF S = {} THEN <<>>
    ELSE LET p == MaxOf(S)
         IN <<[price |-> p, size |-> f[p]]>> \o LevelsDescending(f, S \ {p})

RECURSIVE LevelsAscending(_, _)
LevelsAscending(f, S) ==
    IF S = {} THEN <<>>
    ELSE LET p == MinOf(S)
         IN <<[price |-> p, size |-> f[p]]>> \o LevelsAscending(f, S \ {p})

\* get_book: the snapshot, bids best (highest) first, asks best (lowest) first
GetBook(bm) ==
    [bids |-> LevelsDescending(bm.bids, {p \in BookPrices : bm.bids[p] > 0}),
     asks |-> LevelsAscending(bm.asks, {p \in BookPrices : bm.asks[p] > 0})]

\* OrderBook::new: a book of its own, no level, no delta seen yet
NewOrderBook ==
    [sequence |-> 0, bids |-> [p \in BookPrices |-> 0], asks |-> [p \in BookPrices |-> 0]]

\* OrderBook::apply_delta: the sequence orders the deltas and makes them idempotent, so
\* a delta whose sequence is not past the last one applied is dropped, and Ok returned
OrderBookApplyDelta(ob, delta) ==
    IF delta.sequence <= ob.sequence THEN ob
    ELSE IF delta.side = "BUY"
    THEN [ob EXCEPT !.bids[delta.price] = delta.size, !.sequence = delta.sequence]
    ELSE [ob EXCEPT !.asks[delta.price] = delta.size, !.sequence = delta.sequence]

\* ------------------------------------------------------- the pure functions

\* spread_pct = (ask - bid) / bid * 100 as the exact fraction n/d (bid > 0)
SpreadPct(bid, ask) == [n |-> (ask - bid) * 100, d |-> bid]

\* variant: the comparison made strict, spread_pct < max_spread_pct
SpreadBelowLimit(spread_pct, max_spread_pct) ==
    spread_pct.n < max_spread_pct * spread_pct.d

\* spread_pct <= max_spread_pct
SpreadWithinLimit(spread_pct, max_spread_pct) ==
    spread_pct.n <= max_spread_pct * spread_pct.d

\* variant: a locked market and a bid of zero let through
ValidMarketLax(bid, ask) == bid >= 0 /\ ask >= bid

\* variant: only a locked market refused, a crossed one let through
ValidMarketUnlocked(bid, ask) == bid > 0 /\ ask # bid

\* bid > dec!(0) && ask > bid
ValidMarket(bid, ask) == bid > 0 /\ ask > bid

\* variant: the random factor taken as k / 10
OrderSizeTenths(min_order_size, max_order_size, k) ==
    min_order_size * RandomModulus + (max_order_size - min_order_size) * k * 10

\* size = min + (max - min) * (k / 100), in hundredths of a unit
OrderSize(min_order_size, max_order_size, k) ==
    min_order_size * RandomModulus + (max_order_size - min_order_size) * k

\* variant: a locked pair sold as well
OrderSideLocked(bid, ask) == IF bid >= ask THEN "SELL" ELSE "BUY"

\* side = if bid > ask { SELL } else { BUY }
OrderSide(bid, ask) == IF bid > ask THEN "SELL" ELSE "BUY"

\* for level in levels { book_impl.apply_delta(OrderDelta { side, price, size, sequence }) }
RECURSIVE ReplayLevels(_, _, _, _)
ReplayLevels(ob, levels, side, sequence) ==
    IF levels = <<>> THEN ob
    ELSE ReplayLevels(OrderBookApplyDelta(ob, [side |-> side, price |-> Head(levels).price,
                                               size |-> Head(levels).size,
                                               sequence |-> sequence]),
                      Tail(levels), side, sequence)

\* book_impl: a new OrderBook with the snapshot's bids replayed under sequence 1 and
\* its asks under sequence 2
TransientBook(book) ==
    ReplayLevels(ReplayLevels(NewOrderBook, book.bids, "BUY", 1), book.asks, "SELL", 2)

\* the levels of a book_impl, as a snapshot lists them
TransientLevels(ob) ==
    [bids |-> LevelsDescending(ob.bids, {p \in BookPrices : ob.bids[p] > 0}),
     asks |-> LevelsAscending(ob.asks, {p \in BookPrices : ob.asks[p] > 0})]

\* variant: orders_filled kept as a streak, reset by an order that is not Filled
RecordExecutionStreak(st, status) ==
    [st EXCEPT !.orders_placed = @ + 1,
               !.orders_filled = IF status = "Filled" THEN @ + 1 ELSE 0]

\* variant: a Filled order counted as placed a second time
RecordExecutionDouble(st, status) ==
    [st EXCEPT !.orders_placed = IF status = "Filled" THEN @ + 2 ELSE @ + 1,
               !.orders_filled = IF status = "Filled" THEN @ + 1 ELSE @]

\* variant: the two counters exchanged
RecordExecutionSwapped(st, status) ==
    [st EXCEPT !.orders_filled = @ + 1,
               !.orders_placed = IF status = "Filled" THEN @ + 1 ELSE @]

\* variant: every status but Rejected counted as a fill
RecordExecutionPartial(st, status) ==
    [st EXCEPT !.orders_placed = @ + 1,
               !.orders_filled = IF status # "Rejected" THEN @ + 1 ELSE @]

\* orders_placed += 1; if status == Filled { orders_filled += 1 }
RecordExecution(st, status) ==
    [st EXCEPT !.orders_placed = @ + 1,
               !.orders_filled = IF status = "Filled" THEN @ + 1 ELSE @]

\* (orders_filled - 1) on u64 underflows when orders_filled = 0
MeanUnderflows(orders_filled) == orders_filled = 0

\* total_time = avg * (orders_filled - 1) as f64 + fill_time; avg = total_time / orders_filled as f64.
\* With orders_filled = 0 and wrapping arithmetic the factor is 2^64 - 1: total_time is 0 only
\* for avg = 0 and fill_time = 0, is NaN for avg NaN and is positive otherwise, and the
\* division is by 0.0.
RunningMean(avg, orders_filled, fill_time) ==
    IF orders_filled >= 1
    THEN F64DivCount(F64AddLatency(F64MulCount(avg, orders_filled - 1), fill_time), orders_filled)
    ELSE IF avg.k = "nan" THEN NaN
    ELSE IF avg.k = "num" /\ avg.n = 0 /\ fill_time = 0 THEN NaN
    ELSE Inf

\* variant: the distance between the two readings
AbsoluteDifference(a, b) == IF a >= b THEN a - b ELSE b - a

\* now.saturating_sub(last_update)
SaturatingSub(a, b) == IF a >= b THEN a - b ELSE 0

\* variant: the threshold itself counted as too old
IsStaleInclusive(now, updated, stale_threshold) ==
    SaturatingSub(now, updated) >= stale_threshold

\* age > stale_threshold
IsStale(now, updated, stale_threshold) == SaturatingSub(now, updated) > stale_threshold

\* ------------------------------------------------------------- the handlers

\* where the Book View may fail inside process_book_update
FailPoints == {"none", "get_or_create_book", "apply_delta", "get_book"}
\* where execute_snipe_order may fail before the simulator is called
OrderFailPoints == {"none", "get_book", "apply_delta"}
SimOutcomes == FillStatuses \cup {"Err"}
\* the elapsed milliseconds measured around the simulation: none, or the most
Latencies == {0, MaxLatency}

\* the book handed to the simulator when none is handed
NoLevels == [bids |-> <<>>, asks |-> <<>>]

\* the request handed to the simulator when none is handed
NoRequest == [token_id |-> "", side |-> "none", amount |-> 0, slippage_tolerance |-> None]

NoObs == [kind |-> "none", owned |-> FALSE, result |-> "ok", applied |-> FALSE,
          checked |-> FALSE, detected |-> FALSE, sim |-> "none", side |-> "none",
          amount |-> 0, draw |-> 0, divisor |-> None, stale |-> FALSE, now |-> 0,
          after_stale |-> FALSE, size |-> 0, request |-> NoRequest, bid |-> None,
          ask |-> None, transient |-> NoLevels]

\* MarketOrderRequest { token_id, side, amount, slippage_tolerance } for the draw k
MarketOrderRequest(bid, ask, k) ==
    [token_id |-> cfg.token_id, side |-> OrderSide(bid, ask),
     amount |-> OrderSize(cfg.min_order_size, cfg.max_order_size, k),
     slippage_tolerance |-> Some(SlippageTolerance)]

\* execute_snipe_order for one choice of what its collaborators do: the statistics
\* after it, how it ended, what it handed to the simulator and the count the running
\* mean was divided by
SnipeOrderOutcome(st, bid, ask, book, transient, fail, k, sim, lat) ==
    LET request == MarketOrderRequest(bid, ask, k)
        out  == [stats |-> st, result |-> "err", sim |-> "none", side |-> "none",
                 amount |-> 0, draw |-> 0, latency |-> 0, divisor |-> None,
                 request |-> NoRequest, transient |-> NoLevels]
        sent == [out EXCEPT !.sim = sim, !.side = request.side,
                            !.amount = request.amount, !.draw = k,
                            !.request = request,
                            !.transient = transient]
    IN IF fail = "get_book" THEN out
       ELSE IF fail = "apply_delta" /\ Len(book.bids) + Len(book.asks) > 0 THEN out
       ELSE IF sim = "Err" THEN sent
       ELSE LET placed == RecordExecution(st, sim)
            IN IF MeanUnderflows(placed.orders_filled) /\ overflow_checks
               THEN [sent EXCEPT !.stats = placed, !.result = "panic", !.latency = lat,
                                 !.divisor = Some(placed.orders_filled)]
               ELSE [sent EXCEPT
                        !.stats = [placed EXCEPT !.avg_fill_time_ms =
                                      RunningMean(@, placed.orders_filled, lat)],
                        !.result = "ok", !.latency = lat,
                        !.divisor = Some(placed.orders_filled)]

\* execute_snipe_order: every outcome the random draw, the Book View, the simulator
\* and the measured latency allow
ExecuteSnipeOrder(st, bid, ask, bm) ==
    LET book == GetBook(bm)
        transient == TransientLevels(TransientBook(book))
    IN {SnipeOrderOutcome(st, bid, ask, book, transient, fail, k, sim, lat) :
           fail \in OrderFailPoints, k \in RandomDraws, sim \in SimOutcomes,
           lat \in Latencies}

\* check_opportunities on the stored best bid and best ask: its possible outcomes
CheckOpportunities(st, bid, ask, bm) ==
    LET idle == [stats |-> st, result |-> "ok", sim |-> "none", side |-> "none",
                 amount |-> 0, draw |-> 0, latency |-> 0, divisor |-> None,
                 request |-> NoRequest, transient |-> NoLevels, detected |-> FALSE]
    IN IF bid = None \/ ask = None THEN {idle}
       ELSE IF ~ValidMarket(bid[1], ask[1]) THEN {idle}
       ELSE IF SpreadWithinLimit(SpreadPct(bid[1], ask[1]), cfg.max_spread_pct)
       THEN LET seen == [st EXCEPT !.opportunities_detected = @ + 1]
            IN {[stats |-> r.stats, result |-> r.result, sim |-> r.sim, side |-> r.side,
                 amount |-> r.amount, draw |-> r.draw, latency |-> r.latency,
                 divisor |-> r.divisor, request |-> r.request,
                 transient |-> r.transient, detected |-> TRUE] :
                    r \in ExecuteSnipeOrder(seen, bid[1], ask[1], bm)}
       ELSE {idle}

\* the first level of a side of the snapshot, or the value stored so far
BestOr(levels, stored) == IF Len(levels) > 0 THEN Some(levels[1].price) ELSE stored

\* variant: the token filter left out, the foreign delta applied to the book
BookUpdateUnfiltered(delta) ==
    /\ alive
    /\ delta.token_id # cfg.token_id
    /\ LET applied == ApplyDelta(GetOrCreateBook(book_manager), delta)
           book    == GetBook(applied)
       IN /\ book_manager' = applied
          /\ last_best_bid' = BestOr(book.bids, last_best_bid)
          /\ last_best_ask' = BestOr(book.asks, last_best_ask)
    /\ obs' = [NoObs EXCEPT !.kind = "book"]
    /\ UNCHANGED <<cfg, overflow_checks, last_update, stats, alive, filled_sum,
                   traded_sum>>

\* process_update with a BookUpdate for a foreign instrument: nothing happens
BookUpdateForeign(delta) ==
    /\ alive
    /\ delta.token_id # cfg.token_id
    /\ obs' = [NoObs EXCEPT !.kind = "book"]
    /\ UNCHANGED <<cfg, overflow_checks, last_best_bid, last_best_ask, last_update,
                   book_manager, stats, alive, filled_sum, traded_sum>>

\* process_update with a BookUpdate for the owned instrument: process_book_update
BookUpdateOwned(delta, fail, now) ==
    /\ alive
    /\ delta.token_id = cfg.token_id
    /\ stats.opportunities_detected < MaxOrders
    /\ LET created == GetOrCreateBook(book_manager)
           applied == ApplyDelta(created, delta)
           book    == GetBook(applied)
           bid     == BestOr(book.bids, last_best_bid)
           ask     == BestOr(book.asks, last_best_ask)
           failed  == [NoObs EXCEPT !.kind = "book", !.owned = TRUE, !.result = "err"]
       IN IF fail = "get_or_create_book"
          THEN /\ obs' = failed
               /\ UNCHANGED <<last_best_bid, last_best_ask, last_update, book_manager,
                              stats, alive, filled_sum, traded_sum>>
          ELSE IF fail = "apply_delta"
          THEN /\ obs' = failed
               /\ book_manager' = created
               /\ UNCHANGED <<last_best_bid, last_best_ask, last_update, stats, alive,
                              filled_sum, traded_sum>>
          ELSE IF fail = "get_book"
          THEN /\ obs' = [failed EXCEPT !.applied = TRUE]
               /\ book_manager' = applied
               /\ UNCHANGED <<last_best_bid, last_best_ask, last_update, stats, alive,
                              filled_sum, traded_sum>>
          ELSE \E r \in CheckOpportunities(stats, bid, ask, applied) :
               /\ book_manager' = applied
               /\ last_best_bid' = bid
               /\ last_best_ask' = ask
               /\ last_update' = now
               /\ stats' = r.stats
               /\ alive' = (r.result # "panic")
               /\ filled_sum' = IF r.sim = "Filled" THEN filled_sum + r.latency ELSE filled_sum
               /\ UNCHANGED traded_sum
               /\ obs' = [NoObs EXCEPT !.kind = "book", !.owned = TRUE, !.result = r.result,
                                       !.applied = TRUE, !.checked = TRUE,
                                       !.detected = r.detected, !.sim = r.sim,
                                       !.side = r.side, !.amount = r.amount,
                                       !.draw = r.draw, !.divisor = r.divisor,
                                       !.now = now, !.request = r.request,
                                       !.transient = r.transient,
                                       !.after_stale = (obs.kind = "heartbeat" /\ obs.stale)]
    /\ UNCHANGED <<cfg, overflow_checks>>

\* variant: the token filter left out, every trade counted
TradeEventUnfiltered(token, size) ==
    /\ alive
    /\ stats.total_volume + size <= 2 * MaxVolume
    /\ stats' = [stats EXCEPT !.total_volume = @ + size]
    /\ traded_sum' = IF token = OwnToken THEN traded_sum + size ELSE traded_sum
    /\ obs' = [NoObs EXCEPT !.kind = "trade", !.owned = (token = cfg.token_id),
                            !.size = size]
    /\ UNCHANGED <<cfg, overflow_checks, last_best_bid, last_best_ask, last_update,
                   book_manager, alive, filled_sum>>

\* process_update with a Trade: process_trade for the owned instrument only
TradeEvent(token, size) ==
    /\ alive
    /\ token = cfg.token_id => stats.total_volume + size <= 2 * MaxVolume
    /\ stats' = IF token = cfg.token_id
                THEN [stats EXCEPT !.total_volume = @ + size]
                ELSE stats
    /\ traded_sum' = IF token = OwnToken THEN traded_sum + size ELSE traded_sum
    /\ obs' = [NoObs EXCEPT !.kind = "trade", !.owned = (token = cfg.token_id),
                            !.size = size]
    /\ UNCHANGED <<cfg, overflow_checks, last_best_bid, last_best_ask, last_update,
                   book_manager, alive, filled_sum>>

\* variant: a heartbeat that found the quotes stale takes its reading as the update
HeartbeatRefreshes(now) ==
    /\ alive
    /\ obs' = [NoObs EXCEPT !.kind = "heartbeat", !.now = now,
                            !.stale = IsStale(now, last_update, cfg.stale_threshold)]
    /\ last_update' = IF IsStale(now, last_update, cfg.stale_threshold)
                      THEN now ELSE last_update
    /\ UNCHANGED <<cfg, overflow_checks, last_best_bid, last_best_ask,
                   book_manager, stats, alive, filled_sum, traded_sum>>

\* process_update with a Heartbeat: check_stale_quotes
HeartbeatEvent(now) ==
    /\ alive
    /\ obs' = [NoObs EXCEPT !.kind = "heartbeat", !.now = now,
                            !.stale = IsStale(now, last_update, cfg.stale_threshold),
                            !.after_stale = (obs.kind = "book" /\ obs.result = "ok"
                                               /\ obs.after_stale)]
    /\ UNCHANGED <<cfg, overflow_checks, last_best_bid, last_best_ask, last_update,
                   book_manager, stats, alive, filled_sum, traded_sum>>

\* process_update with any other message: the `_ => {}` arm
OtherEvent ==
    /\ alive
    /\ obs' = [NoObs EXCEPT !.kind = "other"]
    /\ UNCHANGED <<cfg, overflow_checks, last_best_bid, last_best_ask, last_update,
                   book_manager, stats, alive, filled_sum, traded_sum>>

\* ------------------------------------------------------------ specification

\* the readings of time::now_secs(), the wall clock, which may also be set back:
\* the start, and the first second past the threshold
Clock == {0, MaxStaleThreshold + 1}

Deltas == [token_id : Tokens, side : Sides, price : BookPrices, size : LevelSizes]

\* SnipeStats::default
DefaultStats == [opportunities_detected |-> 0, orders_placed |-> 0, orders_filled |-> 0,
                 total_volume |-> 0, total_pnl |-> 0, avg_fill_time_ms |-> Zero]

\* SnipeStrategy::new, with the sizes and the spread limit main passes
Init ==
    /\ cfg \in [token_id : {OwnToken}, max_spread_pct : {MainMaxSpreadPct},
                min_order_size : {MainMinOrderSize}, max_order_size : {MainMaxOrderSize},
                stale_threshold : {MaxStaleThreshold}]
    /\ overflow_checks \in BOOLEAN
    /\ last_best_bid = None
    /\ last_best_ask = None
    /\ last_update = 0
    /\ book_manager = NoBook
    /\ stats = DefaultStats
    /\ alive = TRUE
    /\ obs = NoObs
    /\ filled_sum = 0
    /\ traded_sum = 0

\* the clock is read only by an update that gets past the Book View
ClockReads(fail) == IF fail = "none" THEN Clock ELSE {0}

\* the deltas of a feed that quotes the owned instrument at the prices P
OwnedDeltas(P) == {d \in Deltas : d.token_id = OwnToken /\ d.price \in P}
ForeignDeltas == {d \in Deltas : d.token_id # OwnToken /\ d.price = BasePrice}

\* a feed that quotes one bid at the base price and one ask a tick above it
QuoteDeltas ==
    {d \in OwnedDeltas(Prices) : \/ d.side = "BUY" /\ d.price = BasePrice
                                 \/ d.side = "SELL" /\ d.price = BasePrice + 1}

\* the sizes of the trades the feed reports, up to two of them counted
TradeSizes == {0, MaxVolume}

\* every kind of event, the book feed quoting one bid and one ask
Next ==
    \/ \E delta \in QuoteDeltas, fail \in FailPoints :
          \E now \in ClockReads(fail) : BookUpdateOwned(delta, fail, now)
    \/ \E delta \in ForeignDeltas : BookUpdateForeign(delta)
    \/ \E token \in Tokens, size \in TradeSizes : TradeEvent(token, size)
    \/ \E now \in Clock : HeartbeatEvent(now)
    \/ OtherEvent

Spec == Init /\ [][Next]_vars

\* a feed with two bid prices and two ask prices, the upper bid meeting the lower ask
BookDeltas ==
    {d \in OwnedDeltas(Prices) :
        \/ d.side = "BUY" /\ d.price \in {BasePrice, BasePrice + 1}
        \/ d.side = "SELL" /\ d.price \in {BasePrice + 1, BasePrice + MaxPriceStep}}

\* the book feed alone, two levels a side, the clock standing at its last reading
NextBook ==
    \/ \E delta \in BookDeltas, fail \in FailPoints :
          BookUpdateOwned(delta, fail, MaxStaleThreshold + 1)
    \/ \E delta \in ForeignDeltas : BookUpdateForeign(delta)

SpecBook == Init /\ [][NextBook]_vars

\* the thresholds a strategy is constructed with: none, and the one main passes
StaleThresholds == {0, MainStaleThreshold}

\* clock readings around both thresholds
StaleClock == {0, 1, MainStaleThreshold + 1, MainStaleThreshold + 2}

\* the feed as the mock generator makes it: levels are set, never removed
MockDeltas == {d \in QuoteDeltas : d.size = MockMinSize}

\* SnipeStrategy::new with either stale_threshold
InitStale ==
    /\ cfg \in [token_id : {OwnToken}, max_spread_pct : {MainMaxSpreadPct},
                min_order_size : {MainMinOrderSize}, max_order_size : {MainMaxOrderSize},
                stale_threshold : StaleThresholds]
    /\ overflow_checks \in BOOLEAN
    /\ last_best_bid = None
    /\ last_best_ask = None
    /\ last_update = 0
    /\ book_manager = NoBook
    /\ stats = DefaultStats
    /\ alive = TRUE
    /\ obs = NoObs
    /\ filled_sum = 0
    /\ traded_sum = 0

\* the clock is read only by an update that gets past the Book View
StaleClockReads(fail) == IF fail = "none" THEN StaleClock ELSE {0}

\* book updates and heartbeats, the clock read anywhere around the thresholds
NextStale ==
    \/ \E delta \in MockDeltas, fail \in FailPoints :
          \E now \in StaleClockReads(fail) : BookUpdateOwned(delta, fail, now)
    \/ \E now \in StaleClock : HeartbeatEvent(now)

SpecStale == InitStale /\ [][NextStale]_vars

\* the spread limits a strategy is constructed with: none, main's, and a wide one
SpreadLimits == {0, MainMaxSpreadPct, 100}

\* SnipeStrategy::new with any of the spread limits
InitDetect ==
    /\ cfg \in [token_id : {OwnToken}, max_spread_pct : SpreadLimits,
                min_order_size : {MainMinOrderSize}, max_order_size : {MainMaxOrderSize},
                stale_threshold : {MaxStaleThreshold}]
    /\ overflow_checks \in BOOLEAN
    /\ last_best_bid = None
    /\ last_best_ask = None
    /\ last_update = 0
    /\ book_manager = NoBook
    /\ stats = DefaultStats
    /\ alive = TRUE
    /\ obs = NoObs
    /\ filled_sum = 0
    /\ traded_sum = 0

\* a feed whose bids reach down to the price zero and up to the asks and past them
CrossingDeltas ==
    {d \in OwnedDeltas(BookPrices) :
        \/ d.side = "BUY" /\ d.price \in {0, BasePrice, BasePrice + 1}
        \/ d.side = "SELL" /\ d.price \in {BasePrice, BasePrice + 1}}

\* the book feed with zero, locked and crossed quotes
NextDetect ==
    \E delta \in CrossingDeltas, fail \in FailPoints :
        BookUpdateOwned(delta, fail, MaxStaleThreshold + 1)

SpecDetect == InitDetect /\ [][NextDetect]_vars

\* the size computation of execute_snipe_order for the draw k, on its own
SynthesizeSize(k) ==
    /\ obs' = [NoObs EXCEPT !.kind = "size", !.draw = k,
                            !.amount = OrderSize(cfg.min_order_size, cfg.max_order_size, k)]
    /\ UNCHANGED <<cfg, overflow_checks, last_best_bid, last_best_ask, last_update,
                   book_manager, stats, alive, filled_sum, traded_sum>>

\* the request construction of execute_snipe_order for the pair (bid, ask) and the
\* draw k, on its own
SynthesizeRequest(bid, ask, k) ==
    /\ obs' = [NoObs EXCEPT !.kind = "request", !.bid = Some(bid), !.ask = Some(ask),
                            !.draw = k, !.request = MarketOrderRequest(bid, ask, k)]
    /\ UNCHANGED <<cfg, overflow_checks, last_best_bid, last_best_ask, last_update,
                   book_manager, stats, alive, filled_sum, traded_sum>>

\* the prices the synthesizer is tried on: zero, the base price and a tick above
RequestPrices == {0, BasePrice, BasePrice + 1}

\* every pair of these prices, crossed and locked ones included, and every draw
NextRequest ==
    \E bid \in RequestPrices, ask \in RequestPrices, k \in 0 .. (RandomModulus - 1) :
        SynthesizeRequest(bid, ask, k)

SpecRequest == Init /\ [][NextRequest]_vars

\* the order sizes a strategy may be configured with: a small range and main's two
ConfigSizes == (0 .. MaxCfgSize) \cup {MainMinOrderSize, MainMaxOrderSize}

\* SnipeStrategy::new with any configuration 0 <= min_order_size <= max_order_size
InitOrderSize ==
    /\ cfg \in {c \in [token_id : {OwnToken}, max_spread_pct : {MainMaxSpreadPct},
                       min_order_size : ConfigSizes, max_order_size : ConfigSizes,
                       stale_threshold : {0}] :
                   c.min_order_size <= c.max_order_size}
    /\ overflow_checks = FALSE
    /\ last_best_bid = None
    /\ last_best_ask = None
    /\ last_update = 0
    /\ book_manager = NoBook
    /\ stats = DefaultStats
    /\ alive = TRUE
    /\ obs = NoObs
    /\ filled_sum = 0
    /\ traded_sum = 0

\* every draw of rand::random::<u64>() % 100
NextOrderSize == \E k \in 0 .. (RandomModulus - 1) : SynthesizeSize(k)

SpecOrderSize == InitOrderSize /\ [][NextOrderSize]_vars

\* ------------------------------------------------------------------ claims

\* the price of the first level of one side of a snapshot, None for an empty side
FirstPrice(levels) == IF Len(levels) = 0 THEN None ELSE Some(levels[1].price)

\* C1: when check_opportunities runs on a stored best bid and best ask with bid > 0
\* and ask > bid, it counts an opportunity and calls the order synthesizer exactly
\* when (ask - bid) / bid * 100 <= max_spread_pct, a spread equal to the limit included.
C1_TriggerIffSpreadWithinLimit ==
    [][(obs'.kind = "book" /\ obs'.checked
          /\ last_best_bid' # None /\ last_best_ask' # None)
       => LET bid == last_best_bid'[1]
              ask == last_best_ask'[1]
          IN (bid > 0 /\ ask > bid)
             => IF (ask - bid) * 100 <= cfg.max_spread_pct * bid
                THEN /\ stats'.opportunities_detected = stats.opportunities_detected + 1
                     /\ obs'.detected
                ELSE /\ stats'.opportunities_detected = stats.opportunities_detected
                     /\ ~obs'.detected]_vars

\* C1 witness: bid 0.50 and ask 0.51 under the limit 2.0, a spread exactly at the
\* limit, has been detected
C1_Witness ==
    /\ obs.kind = "book" /\ obs.detected
    /\ last_best_bid = Some(BasePrice) /\ last_best_ask = Some(BasePrice + 1)
    /\ (BasePrice + 1 - BasePrice) * 100 = cfg.max_spread_pct * BasePrice

\* C2: the running mean is evaluated only for an execution that was Filled, so that
\* its divisor orders_filled is at least 1; a partial fill or a rejection leaves
\* avg_fill_time_ms alone.
C2_MeanOnlyOnFill ==
    (obs.kind = "book" /\ obs.divisor # None)
        => (obs.sim = "Filled" /\ obs.divisor[1] >= 1)

\* C3: once at least one execution was Filled, avg_fill_time_ms is the arithmetic
\* mean of the latencies of the Filled executions.
C3_AvgIsMeanOfFilled ==
    stats.orders_filled >= 1
        => stats.avg_fill_time_ms = Frac(filled_sum, stats.orders_filled)

\* C4: after a successfully processed update of the owned instrument, last_best_bid
\* and last_best_ask are the first bid and the first ask of the book, None for an
\* empty side.
C4_BestIsFirstLevel ==
    (obs.kind = "book" /\ obs.owned /\ obs.result = "ok")
        => /\ last_best_bid = FirstPrice(GetBook(book_manager).bids)
           /\ last_best_ask = FirstPrice(GetBook(book_manager).asks)

\* C5: an update after which the book lacks a bid or lacks an ask detects no
\* opportunity and places no order.
C5_NoDetectionOnEmptySide ==
    [][(obs'.kind = "book" /\ obs'.applied
          /\ (Len(GetBook(book_manager').bids) = 0 \/ Len(GetBook(book_manager').asks) = 0))
       => /\ stats'.opportunities_detected = stats.opportunities_detected
          /\ stats'.orders_placed = stats.orders_placed]_vars

\* C6: an event for which process_update returns an error leaves last_best_bid,
\* last_best_ask, last_update and the statistics as they were.
C6_ErrorLeavesStateAlone ==
    [][(obs'.kind = "book" /\ obs'.result = "err")
       => UNCHANGED <<last_best_bid, last_best_ask, last_update, stats>>]_vars

\* C7: orders_filled never exceeds orders_placed.
C7_FilledAtMostPlaced == stats.orders_filled <= stats.orders_placed

\* C7 witness: fills and non-fills have both been counted
C7_Witness ==
    /\ stats.orders_filled >= 1
    /\ stats.orders_placed > stats.orders_filled
    /\ obs.kind \in {"trade", "heartbeat", "other"}

\* C8: a simulation that returns a result adds 1 to orders_placed and adds 1 to
\* orders_filled exactly when the status is Filled; one that returns an error
\* changes neither counter.
C8_CountersFollowSimulation ==
    [][(obs'.kind = "book" /\ obs'.sim # "none")
       => IF obs'.sim = "Err"
          THEN /\ stats'.orders_placed = stats.orders_placed
               /\ stats'.orders_filled = stats.orders_filled
          ELSE /\ stats'.orders_placed = stats.orders_placed + 1
               /\ stats'.orders_filled =
                     stats.orders_filled + (IF obs'.sim = "Filled" THEN 1 ELSE 0)]_vars

\* C8 witness: a partial fill was counted as placed and not as filled, after a fill
C8_Witness ==
    /\ obs.kind = "book" /\ obs.sim = "PartiallyFilled"
    /\ stats.orders_placed = 2 /\ stats.orders_filled = 1

\* C9: for 0 <= min_order_size <= max_order_size and a draw k of 0..99 the size
\* min + (max - min) * k / 100 lies in [min, max], and is min for k = 0.
C9_SizeWithinBounds ==
    obs.kind = "size"
        => /\ cfg.min_order_size * RandomModulus <= obs.amount
           /\ obs.amount <= cfg.max_order_size * RandomModulus
           /\ (obs.draw = 0 => obs.amount = cfg.min_order_size * RandomModulus)

\* C9 witness: min 10, max 100 and the draw 0.50 give the size 55
C9_Witness ==
    /\ obs.kind = "size" /\ obs.draw = 50
    /\ cfg.min_order_size = MainMinOrderSize /\ cfg.max_order_size = MainMaxOrderSize
    /\ obs.amount = 5500

\* C10: a heartbeat at the clock reading now reports Stale exactly when the age
\* exceeds stale_threshold, the age being now - last_update, or 0 when now is
\* before last_update.
C10_StaleIffAgeExceeds ==
    obs.kind = "heartbeat"
        => LET age == IF obs.now >= last_update THEN obs.now - last_update ELSE 0
           IN obs.stale <=> (age > cfg.stale_threshold)

\* C10 witness: a heartbeat read a clock that is behind last_update and reported
\* nothing
C10_Witness ==
    /\ obs.kind = "heartbeat" /\ obs.now < last_update /\ ~obs.stale

\* C11: a successfully processed update of the owned instrument sets last_update to
\* the clock reading of that update; a heartbeat processed next at the same reading
\* reports nothing, whatever the threshold and whatever was reported before; and
\* Stale is reported only when the reading is more than stale_threshold seconds
\* past last_update.
C11_UpdateResetsStaleness ==
    [][/\ (obs'.kind = "book" /\ obs'.owned /\ obs'.result = "ok")
            => last_update' = obs'.now
       /\ (obs.kind = "book" /\ obs.owned /\ obs.result = "ok"
              /\ obs'.kind = "heartbeat" /\ obs'.now = obs.now)
            => ~obs'.stale
       /\ (obs'.kind = "heartbeat" /\ obs'.stale)
            => obs'.now - last_update' > cfg.stale_threshold]_vars

\* C11 witness: a heartbeat reported Stale, an update followed, and the heartbeat
\* after it, at the reading of the update, reported nothing
C11_Witness ==
    /\ obs.kind = "heartbeat" /\ obs.after_stale /\ ~obs.stale
    /\ obs.now = last_update /\ obs.now > cfg.stale_threshold

\* C12: a book update for an instrument other than token_id returns Ok and leaves
\* the book, last_best_bid, last_best_ask, last_update and the statistics as they
\* were; last_best_bid and last_best_ask change only in an update of the owned
\* instrument, to the first level of its book.
C12_ForeignUpdateIgnored ==
    [][/\ (obs'.kind = "book" /\ ~obs'.owned)
            => /\ obs'.result = "ok"
               /\ UNCHANGED <<book_manager, last_best_bid, last_best_ask, last_update,
                              stats>>
       /\ (last_best_bid' # last_best_bid)
            => /\ obs'.kind = "book" /\ obs'.owned
               /\ last_best_bid' = FirstPrice(GetBook(book_manager').bids)
       /\ (last_best_ask' # last_best_ask)
            => /\ obs'.kind = "book" /\ obs'.owned
               /\ last_best_ask' = FirstPrice(GetBook(book_manager').asks)]_vars

\* C12 witness: a foreign update arrived while the strategy held a bid, an ask and
\* a placed order
C12_Witness ==
    /\ obs.kind = "book" /\ ~obs.owned /\ obs.result = "ok"
    /\ last_best_bid # None /\ last_best_ask # None
    /\ stats.orders_placed >= 1

\* C13: a heartbeat returns Ok and leaves last_best_bid, last_best_ask, last_update,
\* the book and every statistic as they were, whether or not it reports Stale.
C13_HeartbeatChangesNothing ==
    [][(obs'.kind = "heartbeat")
       => /\ obs'.result = "ok"
          /\ UNCHANGED <<last_best_bid, last_best_ask, last_update, book_manager,
                         stats>>]_vars

\* C13 witness: a heartbeat reported Stale to a strategy that holds quotes and has
\* placed an order
C13_Witness ==
    /\ obs.kind = "heartbeat" /\ obs.stale
    /\ last_best_bid # None /\ last_best_ask # None
    /\ stats.orders_placed >= 1

\* C14: a trade of the owned instrument adds its size to total_volume, a trade of
\* another instrument adds nothing, and either leaves the other statistics,
\* last_best_bid, last_best_ask, last_update and the book alone; total_volume is
\* always the sum of the sizes of the owned instrument's trades.
C14_VolumeSumsOwnedTrades ==
    [][/\ (obs'.kind = "trade")
            => /\ stats' = [stats EXCEPT !.total_volume =
                                @ + (IF obs'.owned THEN obs'.size ELSE 0)]
               /\ UNCHANGED <<last_best_bid, last_best_ask, last_update, book_manager>>
       /\ stats'.total_volume = traded_sum']_vars

\* C14 witness: two trades of the owned instrument have been added up, a trade of
\* another instrument with a size just passed, and orders were placed meanwhile
C14_Witness ==
    /\ obs.kind = "trade" /\ ~obs.owned /\ obs.size > 0
    /\ stats.total_volume = 2 * MaxVolume /\ stats.orders_placed >= 1

\* C15: when the stored best bid is not above zero, or the stored best ask is not
\* above the best bid (locked or crossed), check_opportunities counts no
\* opportunity, synthesizes and simulates no order and returns Ok, whatever the
\* spread limit.
C15_InvalidMarketRejected ==
    [][(obs'.kind = "book" /\ obs'.checked
          /\ last_best_bid' # None /\ last_best_ask' # None
          /\ (last_best_bid'[1] <= 0 \/ last_best_ask'[1] <= last_best_bid'[1]))
       => /\ stats' = stats
          /\ ~obs'.detected
          /\ obs'.sim = "none" /\ obs'.side = "none"
          /\ obs'.result = "ok"]_vars

\* C15 witness: a crossed pair, bid above ask, went through the detector of a
\* strategy with the wide spread limit, after it had placed orders on valid pairs
C15_Witness ==
    /\ obs.kind = "book" /\ obs.checked /\ ~obs.detected
    /\ last_best_bid # None /\ last_best_ask # None
    /\ last_best_bid[1] > last_best_ask[1]
    /\ cfg.max_spread_pct = 100
    /\ stats.orders_placed >= 1

\* C16: in every step opportunities_detected, orders_placed, orders_filled,
\* total_volume and total_pnl stay or grow; nothing resets them.
C16_CountersNeverDecrease ==
    [][/\ stats'.opportunities_detected >= stats.opportunities_detected
       /\ stats'.orders_placed >= stats.orders_placed
       /\ stats'.orders_filled >= stats.orders_filled
       /\ stats'.total_volume >= stats.total_volume
       /\ stats'.total_pnl >= stats.total_pnl]_vars

\* C16 witness: every counter has grown, an order that was not Filled came after a
\* Filled one, and an event that touches no counter followed
C16_Witness ==
    /\ stats.opportunities_detected >= 2
    /\ stats.orders_placed >= 2 /\ stats.orders_filled = 1
    /\ stats.total_volume >= 1
    /\ obs.kind \in {"heartbeat", "other"}

\* C17: no event ends the strategy: every processed event returns Ok or Err to its
\* caller, also the event whose simulated order is the first and is rejected or
\* partially filled, so that the next event can be accepted.
C17_NoEventTerminates ==
    obs.kind # "none" => (alive /\ obs.result \in {"ok", "err"})

\* C18: the request built for the pair (bid, ask) has side SELL when bid > ask and
\* BUY otherwise, and carries the configured token_id, the amount
\* min + (max - min) * k / 100 of the draw and the slippage tolerance 1.0.
C18_RequestFields ==
    obs.kind = "request"
        => /\ obs.request.side = (IF obs.bid[1] > obs.ask[1] THEN "SELL" ELSE "BUY")
           /\ obs.request.token_id = cfg.token_id
           /\ obs.request.amount * 100 =
                  cfg.min_order_size * 10000
                     + (cfg.max_order_size - cfg.min_order_size) * obs.draw * 100
           /\ obs.request.slippage_tolerance = Some(10)

\* C18 witness: a locked pair gave a BUY request of the largest size, 99.1
C18_Witness ==
    /\ obs.kind = "request" /\ obs.bid = obs.ask /\ obs.draw = 99
    /\ obs.request.side = "BUY" /\ obs.request.amount = 9910

\* C19: the book handed to the simulator holds exactly the levels of the live
\* book's snapshot, every bid and every ask with its price and size and no other,
\* and the live book is the one the update left.
C19_TransientEqualsSnapshot ==
    (obs.kind = "book" /\ obs.sim # "none")
        => obs.transient = GetBook(book_manager)

\* C20: every order that reaches the simulator is a BUY synthesized from a stored
\* pair with 0 < bid < ask; no event sequence reaches the SELL branch.
C20_OnlyBuyOrders ==
    (obs.kind = "book" /\ obs.sim # "none")
        => /\ obs.request.side = "BUY"
           /\ last_best_bid # None /\ last_best_ask # None
           /\ 0 < last_best_bid[1] /\ last_best_bid[1] < last_best_ask[1]

\* C20 witness: a strategy with the wide spread limit, on the feed that also locks
\* and crosses, had its second order, a BUY, filled while the book was not crossed
C20_Witness ==
    /\ obs.kind = "book" /\ obs.sim = "Filled" /\ obs.request.side = "BUY"
    /\ cfg.max_spread_pct = 100
    /\ book_manager.bids[BasePrice + 1] = 0 /\ book_manager.asks[BasePrice] = 0
    /\ stats.orders_placed = 2

\* C21: orders_placed never exceeds opportunities_detected; one event adds at most 1
\* to each of them; and opportunities_detected - orders_placed grows by 1 exactly in
\* an event that detected an opportunity and returned an error, so that the
\* difference counts the detected opportunities whose order failed.
C21_PlacedAtMostDetected ==
    [][/\ stats'.orders_placed <= stats'.opportunities_detected
       /\ stats'.opportunities_detected - stats.opportunities_detected \in {0, 1}
       /\ stats'.orders_placed - stats.orders_placed \in {0, 1}
       /\ (stats'.opportunities_detected - stats'.orders_placed)
             - (stats.opportunities_detected - stats.orders_placed)
          = (IF obs'.kind = "book" /\ obs'.detected /\ obs'.result = "err"
             THEN 1 ELSE 0)]_vars

\* C21 witness: after one order was placed, a second opportunity was detected and
\* its simulation returned an error
C21_Witness ==
    /\ obs.kind = "book" /\ obs.detected /\ obs.result = "err" /\ obs.sim = "Err"
    /\ stats.opportunities_detected = 2 /\ stats.orders_placed = 1

=============================================================================
